---- MODULE Spec2Model ----
(***************************************************************************)
(* Period-over-period aggregation of loan-commitment records.              *)
(*                                                                         *)
(* Two implementations of the same rollup live in the repository:          *)
(*   - ApiService.simulateQueryExecution (TypeScript, client side), which  *)
(*     groups the rows of a /api/query response in a Map keyed by          *)
(*     String(ProcessingDateKey), sorts the keys with Array.sort() and     *)
(*     walks them with a running `prev`;                                   *)
(*   - the SQL script that fills public.aggregated_analytics with          *)
(*     GROUP BY / LAG() OVER (ORDER BY ...) / CASE expressions.            *)
(*                                                                         *)
(* Amounts are integers (currency in its smallest unit).  A JavaScript     *)
(* number that results from a division is kept as the exact fraction; the  *)
(* three non-finite results of `/` are kept as distinct values.  A value   *)
(* stored in a NUMERIC(10,6) column is rounded to six decimals.            *)
(***************************************************************************)
EXTENDS Integers, Sequences, FiniteSets, Bags, TLC

\* Largest number of input records.
MaxRows == 3

\* Period keys (YYYYMMDD as an integer): two month ends of 2024 and the
\* last day of the year 999, whose encoding has seven digits.
KeyDomain == {9991231, 20240131, 20240229}

\* Amounts a record may carry; negative amounts are not validated anywhere.
AmountDomain == {-1, 0, 2}

\* One row of cla_uat.mv_t_cla_input_full_upd / of a /api/query response,
\* reduced to the three columns the aggregation reads.
RawRecord ==
  [ProcessingDateKey : KeyDomain, CommitmentAmt : AmountDomain, OutstandingAmt : AmountDomain]

VARIABLES
  table,                  \* rows of the base table: a bag, a table has no order
  sqlState,               \* "idle" | "done" | the error the rollup script aborted with
  aggregated_analytics,   \* rows of public.aggregated_analytics
  response,               \* the /api/query response (its rows as a bag), Null before the call
  jsState,                \* "idle" | "done" | "error"   (simulateQueryExecution)
  thrown,                 \* the class of the error the promise rejected with, or Null
  records,                \* the AnalyticsRecord[] the promise resolved with
  inflightRequests,       \* ApiService.inflightRequests: request key -> index in fetches
  cache,                  \* ApiService.cache: request key -> [data, expiry]
  now,                    \* Date.now()
  fetches,                \* the fetchPromise of every request sent to the backend
  calls,                  \* the invocations of the ApiService methods
  selectedFilters,        \* App: the SelectedFilters state of the dashboard page
  params,                 \* the argument of the last api.cappedAnalysis call, or Null
  isOpen,                 \* DateRangeFilter: the popover with the form is open
  selectedOperator,       \* DateRangeFilter: 'equals' | 'greaterThan' | 'lessThan' | 'between'
  startDate,              \* DateRangeFilter: a date, or Null for undefined
  endDate,                \* DateRangeFilter: a date, or Null for undefined
  dateFilters,            \* the DateFilter[] the component is rendered with
  rejection,              \* what the last form submission was refused for, or Null
  isConnected,            \* App: the database answered "connected"
  isConnecting,           \* App: a connection attempt is shown as in progress
  connectionError,        \* App: [message |-> text], or Null
  isLoadingFilters,       \* App: the filter options are being loaded
  attempts,               \* the executions of connectToDatabase / handleRetryConnection
  isLoading,              \* App: a query is shown as running
  queryResults,           \* App: the rows on display
  runs                    \* the executions of handleRunQuery

aggVars == <<table, sqlState, aggregated_analytics, response, jsState, thrown, records>>
reqVars == <<inflightRequests, cache, now, fetches, calls>>
pageVars == <<selectedFilters, params>>
dateVars == <<isOpen, selectedOperator, startDate, endDate, dateFilters>>
connVars == <<isConnected, isConnecting, connectionError, isLoadingFilters, attempts>>
runVars == <<isLoading, queryResults, runs>>
appVars == <<connVars, runVars>>
uiVars == <<pageVars, dateVars, rejection, appVars>>
vars == <<aggVars, reqVars, uiVars>>

----------------------------------------------------------------------------
(* Values *)

\* null (JavaScript) / NULL (SQL)
Null == [null |-> TRUE]

\* a non-null number in a nullable field
Num(x) == [val |-> x]

\* the three non-finite results of a JavaScript division
NaN == [special |-> "NaN"]
Infinity == [special |-> "Infinity"]
NegInfinity == [special |-> "-Infinity"]

Abs(x) == IF x < 0 THEN -x ELSE x

RECURSIVE GCD(_, _)
GCD(a, b) == IF b = 0 THEN a ELSE GCD(b, a % b)

\* the fraction n/d (d # 0) in lowest terms with a positive denominator
Frac(n, d) ==
  LET g == GCD(Abs(n), Abs(d))
      s == IF d < 0 THEN -1 ELSE 1
  IN  [n |-> (s * n) \div g, d |-> (s * d) \div g]

IsFrac(x) == DOMAIN x = {"n", "d"}

----------------------------------------------------------------------------
(* JavaScript primitives used by simulateQueryExecution *)

\* String(n) for a non-negative integer: its decimal digits, most
\* significant first.
RECURSIVE String(_)
String(n) == IF n < 10 THEN <<n>> ELSE Append(String(n \div 10), n % 10)

\* a < b in the order Array.prototype.sort uses without a comparator:
\* code unit by code unit, a proper prefix first.
RECURSIVE StrLess(_, _)
StrLess(a, b) ==
  IF a = <<>> THEN b # <<>>
  ELSE IF b = <<>> THEN FALSE
  ELSE IF Head(a) # Head(b) THEN Head(a) < Head(b)
  ELSE StrLess(Tail(a), Tail(b))

\* Array.from(keys).sort(): the keys of a Map are distinct strings.
RECURSIVE sort(_)
sort(S) ==
  IF S = {} THEN <<>>
  ELSE LET m == CHOOSE x \in S : \A y \in S : y = x \/ StrLess(x, y)
       IN  <<m>> \o sort(S \ {m})

\* the integer a string of decimal digits denotes
RECURSIVE ParseKey(_)
ParseKey(s) ==
  IF s = <<>> THEN 0 ELSE 10 * ParseKey(SubSeq(s, 1, Len(s) - 1)) + s[Len(s)]

\* a / b on JavaScript numbers
JsDiv(a, b) ==
  IF b = 0
  THEN IF a = 0 THEN NaN ELSE IF a > 0 THEN Infinity ELSE NegInfinity
  ELSE Frac(a, b)

----------------------------------------------------------------------------
(* ApiService.simulateQueryExecution *)

\* AggStep with `=` in place of `+=`: the last record of a period wins
AggStepOverwrite(aggMap, row) ==
  LET key == String(row.ProcessingDateKey)
      current == IF key \in DOMAIN aggMap
                 THEN aggMap[key]
                 ELSE [CommitmentAmt |-> 0, OutstandingAmt |-> 0, Deals |-> 0]
      updated == [CommitmentAmt |-> row.CommitmentAmt,
                  OutstandingAmt |-> row.OutstandingAmt,
                  Deals |-> current.Deals + 1]
  IN  [k \in (DOMAIN aggMap) \cup {key} |-> IF k = key THEN updated ELSE aggMap[k]]

\* AggStep that clamps a negative amount to 0 before adding it
AggStepClampNegative(aggMap, row) ==
  LET key == String(row.ProcessingDateKey)
      ca == IF row.CommitmentAmt < 0 THEN 0 ELSE row.CommitmentAmt
      oa == IF row.OutstandingAmt < 0 THEN 0 ELSE row.OutstandingAmt
      current == IF key \in DOMAIN aggMap
                 THEN aggMap[key]
                 ELSE [CommitmentAmt |-> 0, OutstandingAmt |-> 0, Deals |-> 0]
      updated == [CommitmentAmt |-> current.CommitmentAmt + ca,
                  OutstandingAmt |-> current.OutstandingAmt + oa,
                  Deals |-> current.Deals + 1]
  IN  [k \in (DOMAIN aggMap) \cup {key} |-> IF k = key THEN updated ELSE aggMap[k]]

\* one iteration of `for (const row of rows)`; every amount of AmountDomain
\* is a finite number, which Number(...) and the isFinite guard leave as it is
AggStep(aggMap, row) ==
  LET key == String(row.ProcessingDateKey)
      ca == row.CommitmentAmt
      oa == row.OutstandingAmt
      current == IF key \in DOMAIN aggMap
                 THEN aggMap[key]
                 ELSE [CommitmentAmt |-> 0, OutstandingAmt |-> 0, Deals |-> 0]
      updated == [CommitmentAmt |-> current.CommitmentAmt + ca,
                  OutstandingAmt |-> current.OutstandingAmt + oa,
                  Deals |-> current.Deals + 1]
  IN  [k \in (DOMAIN aggMap) \cup {key} |-> IF k = key THEN updated ELSE aggMap[k]]

\* the whole grouping loop, starting from `new Map()`
RECURSIVE Aggregate(_, _)
Aggregate(aggMap, rows) ==
  IF rows = <<>> THEN aggMap ELSE Aggregate(AggStep(aggMap, Head(rows)), Tail(rows))

\* PriorUsable with `>=` in place of `>`
PriorUsableNonNegative(prevVal) == prevVal >= 0

\* the guard `prev.X > 0` of the three ratio expressions
PriorUsable(prevVal) == prevVal > 0

\* Quotient with an integer division (Math.trunc of the quotient)
QuotientTruncated(curVal, prevVal) ==
  LET n == curVal - prevVal
      q == IF prevVal = 0 THEN 0
           ELSE IF (n >= 0) = (prevVal > 0)
                THEN Abs(n) \div Abs(prevVal)
                ELSE -(Abs(n) \div Abs(prevVal))
  IN  Frac(q, 1)

\* (cur.X - prev.X) / prev.X
Quotient(curVal, prevVal) == JsDiv(curVal - prevVal, prevVal)

\* prev && prev.X > 0 ? (cur.X - prev.X) / prev.X : null
Diff(prev, curVal, prevVal) ==
  IF prev # Null /\ PriorUsable(prevVal) THEN Quotient(curVal, prevVal) ELSE Null

\* MakeRec with the model fields filled from the computed ratios
MakeRecModelCopy(key, cur, prev) ==
  LET ca == Diff(prev, cur.CommitmentAmt, IF prev # Null THEN prev.CommitmentAmt ELSE 0)
      oa == Diff(prev, cur.OutstandingAmt, IF prev # Null THEN prev.OutstandingAmt ELSE 0)
      deals == Diff(prev, cur.Deals, IF prev # Null THEN prev.Deals ELSE 0)
  IN  [ProcessingDateKey      |-> key,
       CommitmentAmt          |-> cur.CommitmentAmt,
       Deals                  |-> cur.Deals,
       OutstandingAmt         |-> cur.OutstandingAmt,
       ProcessingDateKeyPrior |-> IF prev # Null THEN prev.key ELSE String(0),
       CommitmentAmtPrior     |-> IF prev # Null THEN Num(prev.CommitmentAmt) ELSE Num(0),
       OutstandingAmtPrior    |-> IF prev # Null THEN Num(prev.OutstandingAmt) ELSE Num(0),
       DealsPrior             |-> IF prev # Null THEN Num(prev.Deals) ELSE Num(0),
       ca_diff    |-> ca,
       oa_diff    |-> oa,
       deals_diff |-> deals,
       ca_model_diff    |-> ca,
       oa_model_diff    |-> oa,
       deals_model_diff |-> deals]

\* the object literal `rec`
MakeRec(key, cur, prev) ==
  [ProcessingDateKey      |-> key,
   CommitmentAmt          |-> cur.CommitmentAmt,
   Deals                  |-> cur.Deals,
   OutstandingAmt         |-> cur.OutstandingAmt,
   ProcessingDateKeyPrior |-> IF prev # Null THEN prev.key ELSE String(0),
   CommitmentAmtPrior     |-> IF prev # Null THEN Num(prev.CommitmentAmt) ELSE Num(0),
   OutstandingAmtPrior    |-> IF prev # Null THEN Num(prev.OutstandingAmt) ELSE Num(0),
   DealsPrior             |-> IF prev # Null THEN Num(prev.Deals) ELSE Num(0),
   ca_diff    |-> Diff(prev, cur.CommitmentAmt, IF prev # Null THEN prev.CommitmentAmt ELSE 0),
   oa_diff    |-> Diff(prev, cur.OutstandingAmt, IF prev # Null THEN prev.OutstandingAmt ELSE 0),
   deals_diff |-> Diff(prev, cur.Deals, IF prev # Null THEN prev.Deals ELSE 0),
   ca_model_diff    |-> Null,
   oa_model_diff    |-> Null,
   deals_model_diff |-> Null]

\* prev = { key, ...cur }
NextPrev(key, cur) ==
  [key |-> key, CommitmentAmt |-> cur.CommitmentAmt,
   OutstandingAmt |-> cur.OutstandingAmt, Deals |-> cur.Deals]

\* Walk that sets `prev` only while it is still null: every later row is
\* compared with the first one
RECURSIVE WalkStale(_, _, _)
WalkStale(dates, aggMap, prev) ==
  IF dates = <<>> THEN <<>>
  ELSE LET key == Head(dates)
           cur == aggMap[key]
       IN  <<MakeRec(key, cur, prev)>> \o
           WalkStale(Tail(dates), aggMap, IF prev = Null THEN NextPrev(key, cur) ELSE prev)

\* `for (const key of dates)` with the running `prev`
RECURSIVE Walk(_, _, _)
Walk(dates, aggMap, prev) ==
  IF dates = <<>> THEN <<>>
  ELSE LET key == Head(dates)
           cur == aggMap[key]
       IN  <<MakeRec(key, cur, prev)>> \o Walk(Tail(dates), aggMap, NextPrev(key, cur))

\* ClientAggregate without the `.sort()`: the keys in the insertion order of
\* the Map, i.e. in the order of their first occurrence in the rows
ClientAggregateUnsorted(rows) ==
  LET aggMap == Aggregate(<<>>, rows)
      RECURSIVE keys(_, _)
      keys(seen, rest) ==
        IF rest = <<>> THEN seen
        ELSE LET key == String(Head(rest).ProcessingDateKey)
             IN  keys(IF \E i \in DOMAIN seen : seen[i] = key THEN seen ELSE Append(seen, key),
                      Tail(rest))
  IN  Walk(keys(<<>>, rows), aggMap, Null)

\* the body of simulateQueryExecution after the success check
ClientAggregate(rows) ==
  LET aggMap == Aggregate(<<>>, rows)
      dates == sort(DOMAIN aggMap)
  IN  Walk(dates, aggMap, Null)

\* the orders in which a SELECT without ORDER BY can return the rows of T
Arrangements(T) ==
  {rows \in [1..BagCardinality(T) -> DOMAIN T] :
     \A r \in DOMAIN T : Cardinality({i \in DOMAIN rows : rows[i] = r}) = T[r]}

\* the responses /api/query can give for a query that selects every row
Responses(T) ==
  {[success |-> TRUE, data |-> rows] : rows \in Arrangements(T)}
    \cup {[success |-> TRUE]}
    \cup {[success |-> FALSE, data |-> <<>>]}

\* the rows of a response without their order
RECURSIVE Rows(_)
Rows(data) ==
  IF data = <<>> THEN EmptyBag ELSE SetToBag({Head(data)}) (+) Rows(Tail(data))

\* Throws that also rejects a response without rows
ThrowsOnEmpty(r) == ~r.success \/ ("data" \in DOMAIN r /\ r.data = <<>>)

\* Throws that also checks the rows: if (!response.success || !response.data)
ThrowsOnNullData(r) == ~r.success \/ "data" \notin DOMAIN r

\* Throws without the check: a failed response is aggregated like any other
ThrowsNever(r) == FALSE

\* if (!response.success) throw new Error(...)
Throws(r) == ~r.success

\* `const rows = response.data; for (const row of rows)` raises a TypeError
\* when the response carries no data (null or undefined): nothing between
\* the two statements looks at rows
NotIterable(r) == "data" \notin DOMAIN r

----------------------------------------------------------------------------
(* The rollup that fills public.aggregated_analytics *)

\* SUM(column) over a group of rows
RECURSIVE SUM(_, _)
SUM(group, column) ==
  IF group = EmptyBag THEN 0
  ELSE LET r == CHOOSE r \in DOMAIN group : TRUE
       IN  r[column] + SUM(group (-) SetToBag({r}), column)

\* ORDER BY on an INTEGER column: ascending as integers
RECURSIVE OrderBy(_)
OrderBy(S) ==
  IF S = {} THEN <<>>
  ELSE LET m == CHOOSE x \in S : \A y \in S : x <= y
       IN  <<m>> \o OrderBy(S \ {m})

\* the CTE `base`: GROUP BY "ProcessingDateKey" with SUM / COUNT(*) / SUM
base(T) ==
  LET keys == {r.ProcessingDateKey : r \in DOMAIN T}
      group(k) == [r \in {x \in DOMAIN T : x.ProcessingDateKey = k} |-> T[r]]
  IN  [k \in keys |-> [ProcessingDateKey |-> k,
                       CommitmentAmt |-> SUM(group(k), "CommitmentAmt"),
                       Deals |-> BagCardinality(group(k)),
                       OutstandingAmt |-> SUM(group(k), "OutstandingAmt")]]

\* the CTE `lagged`: every base row with LAG(...) OVER (ORDER BY key), in
\* the order of the window
lagged(T) ==
  LET b == base(T)
      order == OrderBy(DOMAIN b)
  IN  [i \in 1..Len(order) |->
        [ProcessingDateKey |-> b[order[i]].ProcessingDateKey,
         CommitmentAmt |-> b[order[i]].CommitmentAmt,
         Deals |-> b[order[i]].Deals,
         OutstandingAmt |-> b[order[i]].OutstandingAmt,
         ProcessingDateKeyPrior |-> IF i = 1 THEN Null ELSE Num(b[order[i - 1]].ProcessingDateKey),
         CommitmentAmtPrior |-> IF i = 1 THEN Null ELSE Num(b[order[i - 1]].CommitmentAmt),
         OutstandingAmtPrior |-> IF i = 1 THEN Null ELSE Num(b[order[i - 1]].OutstandingAmt),
         DealsPrior |-> IF i = 1 THEN Null ELSE Num(b[order[i - 1]].Deals)]]

\* the errors a statement of the script can abort with
DivisionByZero == [error |-> "division by zero"]
NumericOverflow == [error |-> "numeric field overflow"]

IsError(x) == DOMAIN x = {"error"}

\* a / b rounded to the nearest integer, halves away from zero (b > 0)
RoundDiv(a, b) ==
  IF a >= 0 THEN (2 * a + b) \div (2 * b) ELSE -((2 * (-a) + b) \div (2 * b))

\* a NUMERIC(10,6) column keeps six decimals and four integer digits
Scale6 == 1000000
MaxInt4 == 10000

\* a / b on NUMERIC values
SqlDivide(a, b) == IF b = 0 THEN DivisionByZero ELSE Frac(a, b)

\* x - 1 on a NUMERIC value
MinusOne(x) == IF IsError(x) THEN x ELSE Frac(x.n - x.d, x.d)

\* the assignment of a NUMERIC value to a NUMERIC(10,6) column: rounded to
\* six decimals, an error when four integer digits do not hold it
Numeric10_6(x) ==
  IF IsError(x) THEN x
  ELSE IF Abs(x.n) >= MaxInt4 * x.d THEN NumericOverflow
  ELSE Frac(RoundDiv(x.n * Scale6, x.d), Scale6)

\* CASE WHEN prior IS NULL OR prior = 0 THEN NULL ELSE (cur / prior) - 1 END
SqlRatio(cur, prior) ==
  IF prior = Null \/ prior.val = 0
  THEN Null
  ELSE Numeric10_6(MinusOne(SqlDivide(cur, prior.val)))

\* COALESCE(x, 0)
Coalesce0(x) == IF x = Null THEN 0 ELSE x.val

\* the SELECT list of INSERT INTO public.aggregated_analytics ... FROM lagged l
InsertSelect(l) ==
  [ProcessingDateKey      |-> l.ProcessingDateKey,
   CommitmentAmt          |-> l.CommitmentAmt,
   Deals                  |-> l.Deals,
   OutstandingAmt         |-> l.OutstandingAmt,
   ProcessingDateKeyPrior |-> Coalesce0(l.ProcessingDateKeyPrior),
   CommitmentAmtPrior     |-> l.CommitmentAmtPrior,
   OutstandingAmtPrior    |-> l.OutstandingAmtPrior,
   DealsPrior             |-> l.DealsPrior,
   ca_diff    |-> SqlRatio(l.CommitmentAmt, l.CommitmentAmtPrior),
   oa_diff    |-> SqlRatio(l.OutstandingAmt, l.OutstandingAmtPrior),
   deals_diff |-> SqlRatio(l.Deals, l.DealsPrior),
   ca_model_diff    |-> Null,
   oa_model_diff    |-> Null,
   deals_model_diff |-> Null]

\* the rows the INSERT ... SELECT produces, listed in the order of the
\* window (ORDER BY b."ProcessingDateKey")
Rollup(T) ==
  LET l == lagged(T)
  IN  [i \in 1..Len(l) |-> InsertSelect(l[i])]

\* the error the INSERT aborts with, or Null when every value is stored
Abort(rs) ==
  LET errs == {e \in UNION {{rs[i].ca_diff, rs[i].oa_diff, rs[i].deals_diff} : i \in DOMAIN rs} :
                 IsError(e)}
  IN  IF errs = {} THEN Null ELSE CHOOSE e \in errs : TRUE

----------------------------------------------------------------------------
(* State machine *)

\* nothing has run and the base table is empty
Init ==
  /\ table = EmptyBag
  /\ sqlState = "idle"
  /\ aggregated_analytics = <<>>
  /\ response = Null
  /\ jsState = "idle"
  /\ thrown = Null
  /\ records = <<>>
  /\ inflightRequests = <<>>
  /\ cache = <<>>
  /\ now = 0
  /\ fetches = <<>>
  /\ calls = <<>>
  /\ selectedFilters = [lineOfBusiness |-> <<>>, commitmentSizeGroup |-> <<>>,
                        customCommitmentRanges |-> <<>>, riskGroup |-> <<>>,
                        bankId |-> <<>>, region |-> <<>>, naicsGrpName |-> <<>>]
  /\ params = Null
  /\ isOpen = FALSE
  /\ selectedOperator = "equals"
  /\ startDate = Null
  /\ endDate = Null
  /\ dateFilters = <<>>
  /\ rejection = Null
  /\ isConnected = FALSE
  /\ isConnecting = TRUE
  /\ connectionError = Null
  /\ isLoadingFilters = TRUE
  /\ attempts = <<>>
  /\ isLoading = FALSE
  /\ queryResults = <<>>
  /\ runs = <<>>

\* INSERT INTO cla_uat.mv_t_cla_input_full_upd (...) VALUES (...): one row
InsertRow ==
  /\ sqlState = "idle"
  /\ BagCardinality(table) < MaxRows
  /\ \E r \in RawRecord : table' = table (+) SetToBag({r})
  /\ UNCHANGED <<sqlState, aggregated_analytics, response, jsState, thrown, records>>
  /\ UNCHANGED <<reqVars, uiVars>>

\* TRUNCATE public.aggregated_analytics; WITH base ..., lagged ... INSERT ...
PopulateAggregatedAnalytics ==
  /\ sqlState = "idle"
  /\ LET rs == Rollup(table)
     IN  IF Abort(rs) # Null
         THEN sqlState' = Abort(rs).error /\ aggregated_analytics' = <<>>
         ELSE sqlState' = "done" /\ aggregated_analytics' = rs
  /\ UNCHANGED <<table, response, jsState, thrown, records>>
  /\ UNCHANGED <<reqVars, uiVars>>

\* simulateQueryExecution(queryRequest), for a query that selects every row
simulateQueryExecution ==
  /\ sqlState # "idle"
  /\ jsState = "idle"
  /\ \E r \in Responses(table) :
       /\ response' = IF "data" \in DOMAIN r
                      THEN [success |-> r.success, data |-> Rows(r.data)]
                      ELSE [success |-> r.success]
       /\ IF Throws(r)
          THEN jsState' = "error" /\ thrown' = "Error" /\ records' = <<>>
          ELSE IF NotIterable(r)
          THEN jsState' = "error" /\ thrown' = "TypeError" /\ records' = <<>>
          ELSE jsState' = "done" /\ thrown' = Null /\ records' = ClientAggregate(r.data)
  /\ UNCHANGED <<table, sqlState, aggregated_analytics>>
  /\ UNCHANGED <<reqVars, uiVars>>

Next ==
  \/ InsertRow
  \/ PopulateAggregatedAnalytics
  \/ simulateQueryExecution

Spec == Init /\ [][Next]_vars

----------------------------------------------------------------------------
(* ApiService.request and the methods built on it *)

\* Largest number of invocations of ApiService methods.
MaxCalls == 2

\* Largest number of steps of the clock.
MaxTicks == 2

\* cacheTtlMs of getFilterOptions: 5 * 60_000
FilterOptionsTtl == 300000

\* The query requests of the callers: { filters, limit: 1000 } with two
\* different region selections.
QueryRequest ==
  {[filters |-> [region |-> region], limit |-> 1000] :
     region \in {<<"Rocky Mountain">>, <<"Pacific">>}}

\* JSON.stringify(queryRequest): the property names and values in the order
\* of the object literal
JSONstringify(queryRequest) ==
  <<"filters", <<"region">> \o queryRequest.filters.region,
    "limit", String(queryRequest.limit)>>

\* rows a /api/query response can carry
QueryRecord ==
  {r \in RawRecord : r.ProcessingDateKey # 9991231 /\ r.CommitmentAmt = 2 /\ r.OutstandingAmt = 0}

QueryData == {<<>>} \cup {<<r>> : r \in QueryRecord}

\* the JSON documents the backend can answer with, by endpoint
Payloads(endpoint) ==
  IF endpoint = "/api/query"
  THEN {[success |-> ok, data |-> rows] : ok \in BOOLEAN, rows \in QueryData}
         \cup {[success |-> TRUE]}
  ELSE {[region |-> region] : region \in {<<"Rocky Mountain">>, <<"Rocky Mountain", "Pacific">>}}

\* what fetch(url, ...) can come back with: a rejection (network failure),
\* a response that is not ok, an ok response whose body is not JSON, or an
\* ok response with a JSON document
Wire(endpoint) ==
  {[failed |-> TRUE], [ok |-> FALSE], [ok |-> TRUE]}
    \cup {[ok |-> TRUE, json |-> payload] : payload \in Payloads(endpoint)}

\* getCacheKey that leaves the body out of the key
getCacheKeyEndpointOnly(endpoint, options) == <<endpoint>>

\* getCacheKey: `${endpoint}${body}` with body = `:${options.body}` when the
\* options carry a (non-empty) body and '' otherwise
getCacheKey(endpoint, options) ==
  IF options.body # <<>> THEN <<endpoint, ":", options.body>> ELSE <<endpoint>>

\* getFromCache that never looks at the expiry
getFromCacheNoExpiry(key) ==
  IF key \notin DOMAIN cache
  THEN [data |-> Null, cache |-> cache]
  ELSE [data |-> cache[key].data, cache |-> cache]

\* getFromCache(key): the data returned (Null for a miss) and the cache it
\* leaves, an expired entry being deleted on the way
getFromCache(key) ==
  IF key \notin DOMAIN cache
  THEN [data |-> Null, cache |-> cache]
  ELSE IF now > cache[key].expiry
  THEN [data |-> Null, cache |-> [k \in DOMAIN cache \ {key} |-> cache[k]]]
  ELSE [data |-> cache[key].data, cache |-> cache]

\* setCache(key, data, ttlMs)
setCache(key, data, ttlMs) ==
  [k \in DOMAIN cache \cup {key} |->
     IF k = key THEN [data |-> data, expiry |-> now + ttlMs] ELSE cache[k]]

\* a lookup that never finds a request in flight
inflightHasNever(key) == FALSE

\* this.inflightRequests.has(key)
inflightHas(key) == key \in DOMAIN inflightRequests

\* a finally block that leaves the in-flight entry where it is
inflightKeep(key) == inflightRequests

\* this.inflightRequests.delete(key)
inflightDelete(key) ==
  [k \in DOMAIN inflightRequests \ {key} |-> inflightRequests[k]]

\* request(endpoint, options, opts) up to its return: the caller `call`
\* is handed the cached data, the promise already in flight for the key, or
\* the promise of a new fetch.  opts.cacheTtlMs = 0 stands for no opts.
request(call, endpoint, options, opts) ==
  LET key == getCacheKey(endpoint, options)
      got == IF opts.cacheTtlMs # 0 THEN getFromCache(key) ELSE [data |-> Null, cache |-> cache]
  IN  /\ cache' = got.cache
      /\ IF got.data # Null
         THEN /\ calls' = Append(calls, [call EXCEPT !.cached = got.data])
              /\ UNCHANGED <<inflightRequests, fetches>>
         ELSE IF inflightHas(key)
         THEN /\ calls' = Append(calls, [call EXCEPT !.fetch = inflightRequests[key]])
              /\ UNCHANGED <<inflightRequests, fetches>>
         ELSE /\ fetches' = Append(fetches, [endpoint |-> endpoint, options |-> options,
                                             key |-> key, cacheTtlMs |-> opts.cacheTtlMs,
                                             state |-> "pending", value |-> Null,
                                             error |-> "none"])
              /\ inflightRequests' =
                   [k \in DOMAIN inflightRequests \cup {key} |->
                      IF k = key THEN Len(fetches) + 1 ELSE inflightRequests[k]]
              /\ calls' = Append(calls, [call EXCEPT !.fetch = Len(fetches) + 1])

\* a call that has just been made: awaiting, attached to nothing yet
NewCall(api, queryRequest) ==
  [api |-> api, queryRequest |-> queryRequest, fetch |-> 0, cached |-> Null,
   state |-> "pending",
   value |-> IF api = "simulateQueryExecution" THEN <<>> ELSE Null,
   thrown |-> "none"]

\* cache options that keep the answer for five minutes
optsFiveMinutes == [cacheTtlMs |-> FilterOptionsTtl]

\* the opts of executeQuery: none
optsOfExecuteQuery == [cacheTtlMs |-> 0]

\* simulateQueryExecution(queryRequest) up to `await this.executeQuery(...)`:
\* the request is a POST of the stringified query, without cache options
executeQuery(queryRequest) ==
  /\ Len(calls) < MaxCalls
  /\ request(NewCall("simulateQueryExecution", queryRequest), "/api/query",
             [method |-> "POST", body |-> JSONstringify(queryRequest)],
             optsOfExecuteQuery)
  /\ UNCHANGED now
  /\ UNCHANGED <<aggVars, uiVars>>

\* getFilterOptions(): a request without body, cached for five minutes
getFilterOptions ==
  /\ Len(calls) < MaxCalls
  /\ request(NewCall("getFilterOptions", Null), "/api/filter-options",
             [body |-> <<>>], [cacheTtlMs |-> FilterOptionsTtl])
  /\ UNCHANGED now
  /\ UNCHANGED <<aggVars, uiVars>>

\* a fetch that stores whatever came back, failures included
storedAlways(f, r) ==
  IF fetches[f].cacheTtlMs # 0
  THEN setCache(fetches[f].key,
                IF "json" \in DOMAIN r THEN r.json ELSE [failure |-> TRUE],
                fetches[f].cacheTtlMs)
  ELSE cache

\* the cache a fetch leaves: the data is stored after response.json(), which
\* is reached only by an ok response, and only when opts.cacheTtlMs is set
stored(f, r) ==
  IF "json" \in DOMAIN r /\ fetches[f].cacheTtlMs # 0
  THEN setCache(fetches[f].key, r.json, fetches[f].cacheTtlMs)
  ELSE cache

\* the async function behind fetchPromise, from the answer of the backend to
\* its `finally`: it throws on a failed or non-ok response, stores the data
\* of a cached request, and always deletes the in-flight entry of its key
fetchPromise(f) ==
  /\ fetches[f].state = "pending"
  /\ \E r \in Wire(fetches[f].endpoint) :
       /\ fetches' =
            IF "failed" \in DOMAIN r
            THEN [fetches EXCEPT ![f].state = "rejected", ![f].error = "TypeError"]
            ELSE IF ~r.ok
            THEN [fetches EXCEPT ![f].state = "rejected", ![f].error = "Error"]
            ELSE IF "json" \notin DOMAIN r
            THEN [fetches EXCEPT ![f].state = "rejected", ![f].error = "SyntaxError"]
            ELSE [fetches EXCEPT ![f].state = "fulfilled", ![f].value = r.json]
       /\ cache' = stored(f, r)
  /\ inflightRequests' = inflightDelete(fetches[f].key)
  /\ UNCHANGED <<now, calls>>
  /\ UNCHANGED <<aggVars, uiVars>>

\* the promise a call awaits: the cached data, or its fetch
Awaited(call) ==
  IF call.fetch = 0
  THEN [state |-> "fulfilled", value |-> call.cached, error |-> "none"]
  ELSE [state |-> fetches[call.fetch].state, value |-> fetches[call.fetch].value,
        error |-> fetches[call.fetch].error]

\* simulateQueryExecution from the settlement of executeQuery to its end
AfterExecuteQuery(call, awaited) ==
  IF awaited.state = "rejected"
  THEN [call EXCEPT !.state = "rejected", !.thrown = awaited.error]
  ELSE IF Throws(awaited.value)
  THEN [call EXCEPT !.state = "rejected", !.thrown = "Error"]
  ELSE IF NotIterable(awaited.value)
  THEN [call EXCEPT !.state = "rejected", !.thrown = "TypeError"]
  ELSE [call EXCEPT !.state = "fulfilled", !.value = ClientAggregate(awaited.value.data)]

\* getFilterOptions hands on what request settled with
AfterRequest(call, awaited) ==
  IF awaited.state = "rejected"
  THEN [call EXCEPT !.state = "rejected", !.thrown = awaited.error]
  ELSE [call EXCEPT !.state = "fulfilled", !.value = awaited.value]

\* a caller resumes once the promise it awaits has settled
Resume(c) ==
  /\ calls[c].state = "pending"
  /\ Awaited(calls[c]).state # "pending"
  /\ calls' = [calls EXCEPT ![c] =
                 IF calls[c].api = "simulateQueryExecution"
                 THEN AfterExecuteQuery(calls[c], Awaited(calls[c]))
                 ELSE AfterRequest(calls[c], Awaited(calls[c]))]
  /\ UNCHANGED <<inflightRequests, cache, now, fetches>>
  /\ UNCHANGED <<aggVars, uiVars>>

\* time passes
Tick ==
  /\ now < MaxTicks * FilterOptionsTtl
  /\ now' = now + FilterOptionsTtl
  /\ UNCHANGED <<inflightRequests, cache, fetches, calls>>
  /\ UNCHANGED <<aggVars, uiVars>>

ReqNext ==
  \/ \E queryRequest \in QueryRequest : executeQuery(queryRequest)
  \/ getFilterOptions
  \/ \E f \in DOMAIN fetches : fetchPromise(f)
  \/ \E c \in DOMAIN calls : Resume(c)
  \/ Tick

ReqSpec == Init /\ [][ReqNext]_vars

----------------------------------------------------------------------------
(* The dashboard page: FilterPanel, CustomCommitmentRangeBuilder and         *)
(* handleRunQuery                                                            *)

\* Largest number of custom commitment ranges held at once.
MaxRanges == 2

\* the options of the two dropdowns that are exercised; the other
\* categorical filters are handled by the same code and stay empty
Options ==
  [region |-> {"Rocky Mountain", "Pacific"}, lineOfBusiness |-> {"12", "7"}]

\* what can be typed into the inputs of the range form: a number input holds
\* '' or the text of a number; a label is free text
NumberText == {<<>>} \cup {String(n) : n \in {0, 100, 200, 300}}
LabelText == {<<" ">>, <<"A">>}
RangeForm == [label : LabelText, min : NumberText, max : NumberText]

\* values of Date.now() when a range is added
Timestamps == {1, 2}

\* the elements of an array
Elements(array) == {array[i] : i \in DOMAIN array}

\* array.filter(keep)
filter(array, keep(_)) == SelectSeq(array, keep)

\* parseFloat on the value of a number input
parseFloat(text) == IF text = <<>> THEN NaN ELSE Num(ParseKey(text))

isNaN(x) == x = NaN

\* String.prototype.trim on a text of letters and spaces
RECURSIVE trim(_)
trim(text) ==
  IF text # <<>> /\ Head(text) = " " THEN trim(Tail(text))
  ELSE IF text # <<>> /\ text[Len(text)] = " " THEN trim(SubSeq(text, 1, Len(text) - 1))
  ELSE text

\* InvalidRange with `>` in place of `>=`
InvalidRangeAllowsEqual(minValue, maxValue, label) ==
  \/ isNaN(minValue)
  \/ isNaN(maxValue)
  \/ minValue.val > maxValue.val
  \/ trim(label) = <<>>

\* isNaN(minValue) || isNaN(maxValue) || minValue >= maxValue || !label.trim()
InvalidRange(minValue, maxValue, label) ==
  \/ isNaN(minValue)
  \/ isNaN(maxValue)
  \/ minValue.val >= maxValue.val
  \/ trim(label) = <<>>

\* FilterPanel.handleSelectChange -> App.handleFilterChange: a value that is
\* not selected yet is appended to the selection of its filter
handleSelectChange(filterType, value) ==
  /\ value \notin Elements(selectedFilters[filterType])
  /\ selectedFilters' = [selectedFilters EXCEPT ![filterType] = Append(@, value)]
  /\ UNCHANGED <<params, rejection>>
  /\ UNCHANGED <<aggVars, reqVars, dateVars, appVars>>

\* FilterPanel.removeFilter -> App.handleFilterChange
removeFilter(filterType, value) ==
  /\ value \in Elements(selectedFilters[filterType])
  /\ selectedFilters' =
       [selectedFilters EXCEPT ![filterType] = LET keep(v) == v # value IN filter(@, keep)]
  /\ UNCHANGED <<params, rejection>>
  /\ UNCHANGED <<aggVars, reqVars, dateVars, appVars>>

\* App.handleCustomRangeAdd
handleCustomRangeAdd(range) ==
  selectedFilters' =
    [selectedFilters EXCEPT !.customCommitmentRanges = Append(@, range)]

\* CustomCommitmentRangeBuilder.handleSubmit on a filled-in form: an invalid
\* form makes it return without a word, a valid one is handed to onAddRange
handleSubmit(rangeForm) ==
  /\ Len(selectedFilters.customCommitmentRanges) < MaxRanges
  /\ LET minValue == parseFloat(rangeForm.min)
         maxValue == parseFloat(rangeForm.max)
     IN  IF InvalidRange(minValue, maxValue, rangeForm.label)
         THEN /\ rejection' =
                   [handler |-> "handleSubmit",
                    reason |-> IF isNaN(minValue) \/ isNaN(maxValue) THEN "not a number"
                               ELSE IF minValue.val >= maxValue.val THEN "min >= max"
                               ELSE "no label",
                    raised |-> "nothing"]
              /\ UNCHANGED selectedFilters
         ELSE /\ \E t \in Timestamps :
                   handleCustomRangeAdd([id |-> <<"custom-", t>>,
                                         label |-> trim(rangeForm.label),
                                         min |-> minValue.val, max |-> maxValue.val])
              /\ rejection' = Null
  /\ UNCHANGED params
  /\ UNCHANGED <<aggVars, reqVars, dateVars, appVars>>

\* App.handleCustomRangeRemove, called with the id of a listed range
handleCustomRangeRemove(id) ==
  /\ selectedFilters' =
       [selectedFilters EXCEPT !.customCommitmentRanges =
          LET keep(range) == range.id # id IN filter(@, keep)]
  /\ UNCHANGED <<params, rejection>>
  /\ UNCHANGED <<aggVars, reqVars, dateVars, appVars>>

\* App.handleClearFilters
handleClearFilters ==
  /\ selectedFilters' = [lineOfBusiness |-> <<>>, commitmentSizeGroup |-> <<>>,
                         customCommitmentRanges |-> <<>>, riskGroup |-> <<>>,
                         bankId |-> <<>>, region |-> <<>>, naicsGrpName |-> <<>>]
  /\ UNCHANGED <<params, rejection>>
  /\ UNCHANGED <<aggVars, reqVars, dateVars, appVars>>

\* FilterPanel.totalSelectedFilters
totalSelectedFilters ==
  Len(selectedFilters.lineOfBusiness) + Len(selectedFilters.commitmentSizeGroup)
    + Len(selectedFilters.customCommitmentRanges) + Len(selectedFilters.riskGroup)
    + Len(selectedFilters.bankId) + Len(selectedFilters.region)
    + Len(selectedFilters.naicsGrpName)

\* `list.length > 0 ? list : undefined` as a property of an object literal:
\* a property that is undefined is not sent
Optional(name, list) == IF Len(list) > 0 THEN name :> list ELSE <<>>

\* the filter parameters of the api.cappedAnalysis call of handleRunQuery
\* (the columns, the cap and the output file are left out)
CappedAnalysisParams ==
  [region |-> IF Len(selectedFilters.region) > 0
              THEN selectedFilters.region[1] ELSE "Rocky Mountain",
   sba_filter |-> "Non-SBA"]
    @@ Optional("line_of_business_ids", selectedFilters.lineOfBusiness)
    @@ Optional("commitment_size_groups", selectedFilters.commitmentSizeGroup)
    @@ Optional("risk_group_descriptions", selectedFilters.riskGroup)

\* App.handleRunQuery up to the request; the Execute Query button is
\* disabled while nothing is selected
handleRunQuery ==
  /\ totalSelectedFilters # 0
  /\ params' = CappedAnalysisParams
  /\ UNCHANGED <<selectedFilters, rejection>>
  /\ UNCHANGED <<aggVars, reqVars, dateVars, appVars>>

\* the records the analysis runs over, reduced to the filtered columns
LoanRecord ==
  [Region : {"Rocky Mountain", "Pacific"}, LineofBusinessId : {"12", "7"},
   CommitmentAmt : {100, 150, 200}]

\* the records a request selects: a region name selects that region,
\* "Non-SBA" the lines of business other than '12', a list of ids those ids,
\* and a parameter that is absent selects everything
AdmitsRegion(body, record) ==
  "region" \in DOMAIN body => record.Region = body.region

AdmitsLineOfBusiness(body, record) ==
  /\ body.sba_filter = "Non-SBA" => record.LineofBusinessId # "12"
  /\ "line_of_business_ids" \in DOMAIN body =>
       record.LineofBusinessId \in Elements(body.line_of_business_ids)

Admits(body, record) ==
  AdmitsRegion(body, record) /\ AdmitsLineOfBusiness(body, record)

\* the dropdowns, Clear All Filters and Execute Query
FilterNext ==
  \/ \E filterType \in DOMAIN Options : \E value \in Options[filterType] :
       handleSelectChange(filterType, value)
  \/ \E filterType \in DOMAIN Options : \E value \in Options[filterType] :
       removeFilter(filterType, value)
  \/ handleClearFilters
  \/ handleRunQuery

\* the range builder, Clear All Filters and Execute Query
RangeNext ==
  \/ \E rangeForm \in RangeForm : handleSubmit(rangeForm)
  \/ \E range \in Elements(selectedFilters.customCommitmentRanges) :
       handleCustomRangeRemove(range.id)
  \/ handleClearFilters
  \/ handleRunQuery

RangeSpec == Init /\ [][RangeNext]_vars

FilterSpec == Init /\ [][FilterNext]_vars

(***************************************************************************)
(* DateRangeFilter: the form that builds processing-date filters           *)
(***************************************************************************)

\* longest list of date filters explored
MaxDateFilters == 2

\* the days offered by the calendars, as YYYYMMDD keys
CalendarDates == {20240101, 20240229}

Date(key) == [key |-> key]

\* what a calendar's onSelect can pass: a day, or undefined
Selectable == {Null} \cup {Date(key) : key \in CalendarDates}

OperatorValues == {"equals", "greaterThan", "lessThan", "between"}

isFormValidStartOnly == startDate # Null

\* isFormValid = startDate && (selectedOperator !== 'between' || endDate)
isFormValid ==
  startDate # Null /\ (selectedOperator # "between" \/ endDate # Null)

\* the popover trigger, Cancel, or a click outside
setIsOpen(open) ==
  /\ isOpen # open
  /\ isOpen' = open
  /\ UNCHANGED <<selectedOperator, startDate, endDate, dateFilters, rejection>>
  /\ UNCHANGED <<aggVars, reqVars, pageVars, appVars>>

setSelectedOperator(value) ==
  /\ isOpen
  /\ selectedOperator # value
  /\ selectedOperator' = value
  /\ UNCHANGED <<isOpen, startDate, endDate, dateFilters, rejection>>
  /\ UNCHANGED <<aggVars, reqVars, pageVars, appVars>>

setStartDate(date) ==
  /\ isOpen
  /\ startDate # date
  /\ startDate' = date
  /\ UNCHANGED <<isOpen, selectedOperator, endDate, dateFilters, rejection>>
  /\ UNCHANGED <<aggVars, reqVars, pageVars, appVars>>

\* the end calendar is rendered for 'between' only and disables the days
\* before startDate
setEndDate(date) ==
  /\ isOpen
  /\ selectedOperator = "between"
  /\ endDate # date
  /\ (date # Null /\ startDate # Null) => ~(date.key < startDate.key)
  /\ endDate' = date
  /\ UNCHANGED <<isOpen, selectedOperator, startDate, dateFilters, rejection>>
  /\ UNCHANGED <<aggVars, reqVars, pageVars, appVars>>

\* the owner of the list appends the filter it is handed
onAddDateFilter(newFilter) ==
  dateFilters' = Append(dateFilters, newFilter)

handleAddFilter ==
  /\ startDate # Null
  /\ onAddDateFilter(
       IF selectedOperator = "between" /\ endDate # Null
       THEN [operator |-> selectedOperator, startDate |-> startDate,
             endDate |-> endDate]
       ELSE [operator |-> selectedOperator, startDate |-> startDate])
  /\ startDate' = Null
  /\ endDate' = Null
  /\ isOpen' = FALSE
  /\ UNCHANGED selectedOperator

\* a click on Add Filter: the button is disabled unless isFormValid
AddFilter ==
  /\ isOpen
  /\ Len(dateFilters) < MaxDateFilters
  /\ IF isFormValid
     THEN handleAddFilter /\ rejection' = Null
     ELSE /\ rejection' =
               [handler |-> "Add Filter",
                reason |-> IF startDate = Null THEN "no date"
                           ELSE "between without end",
                raised |-> "nothing"]
          /\ UNCHANGED dateVars
  /\ UNCHANGED <<aggVars, reqVars, pageVars, appVars>>

\* the X on a filter badge
onRemoveDateFilter(index) ==
  /\ dateFilters' = [i \in 1..(Len(dateFilters) - 1) |->
                       IF i < index THEN dateFilters[i] ELSE dateFilters[i + 1]]
  /\ UNCHANGED <<isOpen, selectedOperator, startDate, endDate, rejection>>
  /\ UNCHANGED <<aggVars, reqVars, pageVars, appVars>>

DateNext ==
  \/ \E open \in BOOLEAN : setIsOpen(open)
  \/ \E value \in OperatorValues : setSelectedOperator(value)
  \/ \E date \in Selectable : setStartDate(date)
  \/ \E date \in Selectable : setEndDate(date)
  \/ AddFilter
  \/ \E index \in DOMAIN dateFilters : onRemoveDateFilter(index)

DateSpec == Init /\ [][DateNext]_vars

\* the period keys of the records the filters are applied to
PeriodKeys == {20231231, 20240101, 20240229, 20240301}

\* one date filter against a record's period key
MatchesDateFilter(dateFilter, periodKey) ==
  CASE dateFilter.operator = "equals" -> periodKey = dateFilter.startDate.key
    [] dateFilter.operator = "greaterThan" -> periodKey >= dateFilter.startDate.key
    [] dateFilter.operator = "lessThan" -> periodKey <= dateFilter.startDate.key
    [] dateFilter.operator = "between" ->
         /\ dateFilter.startDate.key <= periodKey
         /\ periodKey <= dateFilter.endDate.key

MatchesDateFiltersUnion(filters, periodKey) ==
  \/ filters = <<>>
  \/ \E i \in DOMAIN filters : MatchesDateFilter(filters[i], periodKey)

\* the date-filter group: no restriction when empty, else every filter
MatchesDateFilters(filters, periodKey) ==
  \/ filters = <<>>
  \/ \A i \in DOMAIN filters : MatchesDateFilter(filters[i], periodKey)

(***************************************************************************)
(* App: the connection to the database and the execution of a query        *)
(***************************************************************************)

\* the number of connection attempts and of query executions explored
MaxAttempts == 3
MaxRuns == 2

\* what the network can hand back for GET /db/status: no response, a status
\* that is not ok, a body that is not JSON, or a status object
DbStatusWire ==
  {[failed |-> TRUE], [ok |-> FALSE], [ok |-> TRUE],
   [ok |-> TRUE, json |-> [status |-> "connected"]],
   [ok |-> TRUE, json |-> [status |-> "error"]],
   [ok |-> TRUE, json |-> [status |-> "error", error |-> ""]],
   [ok |-> TRUE, json |-> [status |-> "error", error |-> "connection refused"]]}

\* what it can hand back for the analysis request of the r-th execution
AnalysisWire(r) ==
  {[failed |-> TRUE], [ok |-> FALSE], [ok |-> TRUE],
   [ok |-> TRUE, json |-> [error |-> "analysis failed", analysis_results |-> <<>>]],
   [ok |-> TRUE, json |-> [analysis_results |-> <<>>]],
   [ok |-> TRUE, json |-> [analysis_results |-> <<[query |-> r]>>]]}

\* lib/api request<T>: what the awaited call settles with
apiRequest(r) ==
  IF "failed" \in DOMAIN r THEN [state |-> "rejected", message |-> "Failed to fetch"]
  ELSE IF ~r.ok THEN [state |-> "rejected", message |-> "HTTP 500: "]
  ELSE IF "json" \notin DOMAIN r
  THEN [state |-> "rejected", message |-> "Unexpected end of JSON input"]
  ELSE [state |-> "fulfilled", value |-> r.json]

\* a || b on an optional string: undefined and '' are falsy
OrElse(object, field, b) ==
  IF field \in DOMAIN object /\ object[field] # "" THEN object[field] ELSE b

\* the error the try block of a connection attempt ends with, as the catch
\* block stores it, or Null when the database is connected
Failure(handler, r) ==
  LET dbStatus == apiRequest(r)
  IN  IF dbStatus.state = "rejected" THEN [message |-> dbStatus.message]
      ELSE IF dbStatus.value.status = "connected" THEN Null
      ELSE [message |->
              OrElse(dbStatus.value, "error",
                     IF handler = "connectToDatabase"
                     THEN "Database connection failed"
                     ELSE "Database connection failed on retry")]

\* the Retry Connection buttons are offered whatever the state
RetryEnabledAlways == TRUE

\* {!isConnecting && connectionError && <Button onClick={handleRetryConnection}>}
\* and the button of ConnectionCard; StatusDashboard never calls onRefresh
RetryEnabled == ~isConnecting /\ connectionError # Null

\* the FilterPanel is rendered
FilterPanelShown == ~isConnecting /\ isConnected /\ ~isLoadingFilters

\* the effect that runs once after the first render, up to its first await
connectToDatabase ==
  /\ attempts = <<>>
  /\ isConnecting' = TRUE
  /\ connectionError' = Null
  /\ attempts' = <<[handler |-> "connectToDatabase", pc |-> "dbStatus"]>>
  /\ UNCHANGED <<isConnected, isLoadingFilters>>
  /\ UNCHANGED <<aggVars, reqVars, pageVars, dateVars, rejection, runVars>>

\* App.handleRetryConnection up to its first await
handleRetryConnection ==
  /\ attempts # <<>>
  /\ Len(attempts) < MaxAttempts
  /\ RetryEnabled
  /\ connectionError' = Null
  /\ isConnecting' = TRUE
  /\ attempts' = Append(attempts, [handler |-> "handleRetryConnection", pc |-> "dbStatus"])
  /\ UNCHANGED <<isConnected, isLoadingFilters>>
  /\ UNCHANGED <<aggVars, reqVars, pageVars, dateVars, rejection, runVars>>

\* `await api.dbStatus()` of the a-th attempt settles and the attempt runs
\* on to its next await (loadFilterOptions up to `await api.filters`) or,
\* for a failed retry, through catch and finally
dbStatus(a) ==
  /\ a \in DOMAIN attempts
  /\ attempts[a].pc = "dbStatus"
  /\ \E r \in DbStatusWire :
       LET failure == Failure(attempts[a].handler, r)
       IN  IF failure = Null
           THEN /\ isConnected' = TRUE
                /\ connectionError' = Null
                /\ isLoadingFilters' = TRUE
                /\ attempts' = [attempts EXCEPT ![a].pc = "loadFilterOptions"]
                /\ UNCHANGED isConnecting
           ELSE /\ connectionError' = failure
                /\ isConnected' = FALSE
                /\ IF attempts[a].handler = "connectToDatabase"
                   THEN /\ isLoadingFilters' = TRUE
                        /\ attempts' = [attempts EXCEPT ![a].pc = "loadFilterOptions"]
                        /\ UNCHANGED isConnecting
                   ELSE /\ isConnecting' = FALSE
                        /\ attempts' = [attempts EXCEPT ![a].pc = "done"]
                        /\ UNCHANGED isLoadingFilters
  /\ UNCHANGED <<aggVars, reqVars, pageVars, dateVars, rejection, runVars>>

\* `await api.filters(true)` settles: loadFilterOptions ends the same way
\* whether it is fulfilled or rejected, and the attempt runs through finally
loadFilterOptions(a) ==
  /\ a \in DOMAIN attempts
  /\ attempts[a].pc = "loadFilterOptions"
  /\ isLoadingFilters' = FALSE
  /\ isConnecting' = FALSE
  /\ attempts' = [attempts EXCEPT ![a].pc = "done"]
  /\ UNCHANGED <<isConnected, connectionError>>
  /\ UNCHANGED <<aggVars, reqVars, pageVars, dateVars, rejection, runVars>>

\* a handleRunQuery whose finally block is missing
noFinally == isLoading

\* finally { setIsLoading(false) }
finally == FALSE

\* a click on Execute Query: handleRunQuery up to its first await
onRunQuery ==
  /\ FilterPanelShown
  /\ totalSelectedFilters # 0
  /\ Len(runs) < MaxRuns
  /\ isLoading' = TRUE
  /\ runs' = Append(runs, [pc |-> "timer500", rows |-> <<>>])
  /\ UNCHANGED queryResults
  /\ UNCHANGED <<aggVars, reqVars, pageVars, dateVars, rejection, connVars>>

\* the timer the r-th execution waits for goes off. Timers of the same
\* delay go off in the order they were set; the last one is followed by
\* setQueryResults and the finally block
Timeout(r) ==
  /\ r \in DOMAIN runs
  /\ \/ /\ runs[r].pc \in {"timer500", "timer800"}
        /\ \A q \in 1..(r - 1) : runs[q].pc # runs[r].pc
        /\ runs' = [runs EXCEPT ![r].pc = IF @ = "timer500" THEN "timer800"
                                          ELSE "cappedAnalysis"]
        /\ UNCHANGED <<isLoading, queryResults>>
     \/ /\ runs[r].pc = "processing"
        /\ queryResults' = runs[r].rows
        /\ isLoading' = finally
        /\ runs' = [runs EXCEPT ![r].pc = "done"]
  /\ UNCHANGED <<aggVars, reqVars, pageVars, dateVars, rejection, connVars>>

\* `await api.cappedAnalysis(...)` of the r-th execution settles: a
\* rejection, an error in the result and a result without rows lead through
\* catch and finally, a result with rows to the last timer
cappedAnalysis(r) ==
  /\ r \in DOMAIN runs
  /\ runs[r].pc = "cappedAnalysis"
  /\ \E w \in AnalysisWire(r) :
       LET analysisResult == apiRequest(w)
       IN  IF \/ analysisResult.state = "rejected"
              \/ OrElse(analysisResult.value, "error", "") # ""
           THEN /\ isLoading' = finally
                /\ runs' = [runs EXCEPT ![r].pc = "failed"]
           ELSE /\ runs' = [runs EXCEPT ![r].pc = "processing",
                                        ![r].rows = analysisResult.value.analysis_results]
                /\ UNCHANGED isLoading
  /\ UNCHANGED queryResults
  /\ UNCHANGED <<aggVars, reqVars, pageVars, dateVars, rejection, connVars>>

\* the page from its first render on: the connection, the region dropdown
\* and Execute Query
AppNext ==
  \/ connectToDatabase
  \/ handleRetryConnection
  \/ \E a \in 1..MaxAttempts : dbStatus(a)
  \/ \E a \in 1..MaxAttempts : loadFilterOptions(a)
  \/ \E value \in Options.region : FilterPanelShown /\ handleSelectChange("region", value)
  \/ onRunQuery
  \/ \E r \in 1..MaxRuns : Timeout(r)
  \/ \E r \in 1..MaxRuns : cappedAnalysis(r)

AppSpec == Init /\ [][AppNext]_vars

\* timers go off and the browser settles every request it has sent
AppFairSpec ==
  /\ AppSpec
  /\ \A r \in 1..MaxRuns : WF_vars(Timeout(r)) /\ WF_vars(cappedAnalysis(r))

----------------------------------------------------------------------------
(* The output boundary: the rows handed to the table and chart layers *)

\* the truthiness of a nullable number: null, NaN and 0 are falsy
Truthy(x) == x # Null /\ x # NaN /\ x # Num(0) /\ x # Frac(0, 1)

\* x * 100 on a finite ratio; an infinite one stays infinite
Times100(x) == IF IsFrac(x) THEN Frac(x.n * 100, x.d) ELSE x

\* row.x ? row.x * 100 : null
PercentOrNull(x) == IF Truthy(x) THEN Times100(x) ELSE Null

\* the value fields of one element of ChartVisualization's chartData
chartData(row) ==
  [commitmentAmt  |-> row.CommitmentAmt,
   outstandingAmt |-> row.OutstandingAmt,
   deals          |-> row.Deals,
   caDiff         |-> PercentOrNull(row.ca_diff),
   oaDiff         |-> PercentOrNull(row.oa_diff),
   dealsDiff      |-> PercentOrNull(row.deals_diff),
   caModelDiff    |-> PercentOrNull(row.ca_model_diff),
   oaModelDiff    |-> PercentOrNull(row.oa_model_diff),
   dealsModelDiff |-> PercentOrNull(row.deals_model_diff)]

\* row.x || 0 on a nullable number
OrZero(x) == IF Truthy(x) THEN x ELSE Num(0)

\* row.key ? row.key.toString() : '0', then YYYY-MM-DD when it has eight
\* characters
FormatKey(key) ==
  LET dateStr == IF key # 0 THEN String(key) ELSE String(0)
  IN  IF Len(dateStr) = 8
      THEN SubSeq(dateStr, 1, 4) \o <<"-">> \o SubSeq(dateStr, 5, 6) \o <<"-">>
             \o SubSeq(dateStr, 7, 8)
      ELSE dateStr

\* one element of transformedData: a row of the analysis result as it is
\* handed to the table and to ChartVisualization
transformedData(row) ==
  [ProcessingDateKey      |-> FormatKey(row.ProcessingDateKey),
   CommitmentAmt          |-> IF row.CommitmentAmt # 0 THEN row.CommitmentAmt ELSE 0,
   OutstandingAmt         |-> IF row.OutstandingAmt # 0 THEN row.OutstandingAmt ELSE 0,
   Deals                  |-> IF row.Deals # 0 THEN row.Deals ELSE 0,
   ProcessingDateKeyPrior |-> FormatKey(row.ProcessingDateKeyPrior),
   CommitmentAmtPrior     |-> OrZero(row.CommitmentAmtPrior),
   OutstandingAmtPrior    |-> OrZero(row.OutstandingAmtPrior),
   DealsPrior             |-> OrZero(row.DealsPrior),
   ca_diff          |-> row.ca_diff,
   oa_diff          |-> row.oa_diff,
   deals_diff       |-> row.deals_diff,
   ca_model_diff    |-> row.ca_model_diff,
   oa_model_diff    |-> row.oa_model_diff,
   deals_model_diff |-> row.deals_model_diff]

----------------------------------------------------------------------------
(* Properties *)

JsDone == jsState = "done"

\* /api/query answered with success and with rows (possibly none)
Answered == response # Null /\ response.success /\ "data" \in DOMAIN response
SqlDone == sqlState = "done"

\* the period key of an output row as an integer
JsKey(r) == ParseKey(r.ProcessingDateKey)
SqlKey(r) == r.ProcessingDateKey

\* the distinct period keys of the input
InputKeys == {r.ProcessingDateKey : r \in DOMAIN table}

\* the sum of a column over the input records of period k among those in S
RECURSIVE TotalOver(_, _, _)
TotalOver(S, k, column) ==
  IF S = {} THEN 0
  ELSE LET r == CHOOSE r \in S : TRUE
       IN  (IF r.ProcessingDateKey = k THEN table[r] * r[column] ELSE 0)
           + TotalOver(S \ {r}, k, column)

Total(k, column) == TotalOver(DOMAIN table, k, column)

\* the number of input records of period k among those in S
RECURSIVE CountOver(_, _)
CountOver(S, k) ==
  IF S = {} THEN 0
  ELSE LET r == CHOOSE r \in S : TRUE
       IN  (IF r.ProcessingDateKey = k THEN table[r] ELSE 0) + CountOver(S \ {r}, k)

Count(k) == CountOver(DOMAIN table, k)

\* an aggregate column and the ratio computed from it
Metrics ==
  {<<"CommitmentAmt", "ca_diff">>, <<"OutstandingAmt", "oa_diff">>, <<"Deals", "deals_diff">>}

NonFinite == {NaN, Infinity, NegInfinity}

\* the fraction f equals (cur / prior) - 1 exactly
ExactRatio(f, cur, prior) == IsFrac(f) /\ f.n * prior = (cur - prior) * f.d

\* the fraction f is (cur / prior) - 1 rounded to six decimals
RoundedRatio(f, cur, prior) ==
  /\ IsFrac(f)
  /\ Scale6 % f.d = 0
  /\ 2 * Abs(f.n * (Scale6 \div f.d) * prior - (cur - prior) * Scale6) <= Abs(prior)

GroupingCorrect(out, keyOf(_)) ==
  /\ Len(out) = Cardinality(InputKeys)
  /\ {keyOf(out[i]) : i \in DOMAIN out} = InputKeys
  /\ \A i \in DOMAIN out :
       /\ out[i].CommitmentAmt = Total(keyOf(out[i]), "CommitmentAmt")
       /\ out[i].OutstandingAmt = Total(keyOf(out[i]), "OutstandingAmt")
       /\ out[i].Deals = Count(keyOf(out[i]))

Ascending(out, keyOf(_)) ==
  \A i \in 1..(Len(out) - 1) : keyOf(out[i]) < keyOf(out[i + 1])

\* C2: the output rows are strictly ascending by period key, compared as
\* the integer of the data model, and no two rows share a period key.
C2_StrictlyAscending ==
  /\ JsDone => Ascending(records, JsKey)
  /\ SqlDone => Ascending(aggregated_analytics, SqlKey)

Earliest(out, keyOf(_)) ==
  {i \in DOMAIN out : \A j \in DOMAIN out : keyOf(out[i]) <= keyOf(out[j])}

RatiosNull(r) == r.ca_diff = Null /\ r.oa_diff = Null /\ r.deals_diff = Null

\* C3: for a non-empty input the earliest period of the output has the
\* sentinel 0 as its prior period key and its three change ratios are null.
C3_EarliestHasSentinel ==
  /\ JsDone =>
       \A i \in Earliest(records, JsKey) :
         records[i].ProcessingDateKeyPrior = String(0) /\ RatiosNull(records[i])
  /\ SqlDone =>
       \A i \in Earliest(aggregated_analytics, SqlKey) :
         aggregated_analytics[i].ProcessingDateKeyPrior = 0
         /\ RatiosNull(aggregated_analytics[i])

PriorIsPredecessor(out) ==
  \A i \in 2..Len(out) :
    /\ out[i].ProcessingDateKeyPrior = out[i - 1].ProcessingDateKey
    /\ out[i].CommitmentAmtPrior = Num(out[i - 1].CommitmentAmt)
    /\ out[i].OutstandingAmtPrior = Num(out[i - 1].OutstandingAmt)
    /\ out[i].DealsPrior = Num(out[i - 1].Deals)

\* C4: every output row after the first carries the period key and the
\* three aggregates of the row immediately before it as its prior values.
C4_PriorIsPredecessor ==
  /\ JsDone => PriorIsPredecessor(records)
  /\ SqlDone => PriorIsPredecessor(aggregated_analytics)

C4_Witness ==
  /\ JsDone /\ SqlDone
  /\ Len(records) = 3 /\ Len(aggregated_analytics) = 3
  /\ records[1].CommitmentAmt # records[2].CommitmentAmt
  /\ records[3].CommitmentAmtPrior = Num(records[2].CommitmentAmt)
  /\ aggregated_analytics[1].CommitmentAmt # aggregated_analytics[2].CommitmentAmt
  /\ aggregated_analytics[3].CommitmentAmtPrior = Num(aggregated_analytics[2].CommitmentAmt)

FirstPriorsNull(out) ==
  out # <<>> =>
    /\ out[1].CommitmentAmtPrior = Null
    /\ out[1].OutstandingAmtPrior = Null
    /\ out[1].DealsPrior = Null

\* C5: the first output row has no predecessor, and its priorTotalCommitment,
\* priorTotalOutstanding and priorDealCount are null, not a number.
C5_FirstPriorsNull ==
  /\ JsDone => FirstPriorsNull(records)
  /\ SqlDone => FirstPriorsNull(aggregated_analytics)

ZeroPriorNull(out) ==
  \A i \in DOMAIN out : \A m \in Metrics :
    /\ out[i][m[2]] \notin NonFinite
    /\ (i > 1 /\ out[i - 1][m[1]] = 0) => out[i][m[2]] = Null

\* C6: a period whose predecessor has an aggregate of exactly 0 has a null
\* ratio for that aggregate; no ratio is Infinity or NaN and the
\* computation does not raise.
C6_ZeroPriorNullRatio ==
  /\ Answered => JsDone
  /\ JsDone => ZeroPriorNull(records)
  /\ sqlState # DivisionByZero.error
  /\ SqlDone => ZeroPriorNull(aggregated_analytics)

C6_Witness ==
  /\ JsDone /\ SqlDone
  /\ \E i \in 2..Len(records) :
       /\ records[i - 1].CommitmentAmt = 0
       /\ records[i].CommitmentAmt # 0
       /\ records[i].ca_diff = Null
       /\ records[i].deals_diff # Null
  /\ \E i \in 2..Len(aggregated_analytics) :
       /\ aggregated_analytics[i - 1].OutstandingAmt = 0
       /\ aggregated_analytics[i].OutstandingAmt # 0
       /\ aggregated_analytics[i].oa_diff = Null

NonZeroPriorRatio(out, Equals(_, _, _)) ==
  \A i \in DOMAIN out : \A m \in Metrics :
    IF i = 1
    THEN TRUE
    ELSE /\ out[i - 1][m[1]] # 0 => Equals(out[i][m[2]], out[i][m[1]], out[i - 1][m[1]])
         /\ out[i][m[2]] = Null => out[i - 1][m[1]] = 0

\* C7: a period whose predecessor has a non-zero aggregate, negative
\* included, has the ratio (current / prior) - 1; a ratio is null only when
\* there is no predecessor or the prior value is exactly 0.
C7_NonZeroPriorRatio ==
  /\ JsDone => NonZeroPriorRatio(records, ExactRatio)
  /\ SqlDone => NonZeroPriorRatio(aggregated_analytics, RoundedRatio)

DealsFractional(out, Equals(_, _, _)) ==
  \A i \in 2..Len(out) : Equals(out[i].deals_diff, out[i].Deals, out[i - 1].Deals)

\* C8: dealCountChangeRatio is the quotient of the deal counts minus 1
\* without truncation: exact on the client, to the six decimals of its
\* column in the table (prior 2 and current 1 give -0.5, not 0 or -1).
C8_DealsFractional ==
  /\ JsDone => DealsFractional(records, ExactRatio)
  /\ SqlDone => DealsFractional(aggregated_analytics, RoundedRatio)

C8_Witness ==
  /\ JsDone /\ SqlDone
  /\ \E i \in 2..Len(records) :
       /\ records[i - 1].Deals = 2 /\ records[i].Deals = 1
       /\ records[i].deals_diff = [n |-> -1, d |-> 2]
  /\ \E i \in 2..Len(aggregated_analytics) :
       /\ aggregated_analytics[i - 1].Deals = 2 /\ aggregated_analytics[i].Deals = 1
       /\ aggregated_analytics[i].deals_diff = [n |-> -1, d |-> 2]

ModelDiffsNull(out) ==
  \A i \in DOMAIN out :
    out[i].ca_model_diff = Null /\ out[i].oa_model_diff = Null /\ out[i].deals_model_diff = Null

\* C9: the three model-diff fields of every output row are null.
C9_ModelDiffsNull ==
  /\ JsDone => ModelDiffsNull(records)
  /\ SqlDone => ModelDiffsNull(aggregated_analytics)

C9_Witness ==
  /\ JsDone /\ SqlDone
  /\ \E i \in DOMAIN records :
       records[i].ca_diff # Null /\ records[i].ca_model_diff = Null
  /\ \E i \in DOMAIN aggregated_analytics :
       aggregated_analytics[i].ca_diff # Null /\ aggregated_analytics[i].ca_model_diff = Null

\* C10: an empty input collection yields an empty output sequence and no
\* error.
C10_EmptyInputEmptyOutput ==
  table = EmptyBag =>
    /\ (Answered /\ response.data = EmptyBag) => (JsDone /\ records = <<>>)
    /\ sqlState # "idle" => (SqlDone /\ aggregated_analytics = <<>>)

C10_Witness ==
  /\ table = EmptyBag
  /\ Answered /\ response.data = EmptyBag
  /\ JsDone /\ SqlDone
  /\ records = <<>> /\ aggregated_analytics = <<>>

HasNegative(k) ==
  \E r \in DOMAIN table :
    r.ProcessingDateKey = k /\ (r.CommitmentAmt < 0 \/ r.OutstandingAmt < 0)

\* C13: a record with a negative commitment or outstanding amount is
\* accepted: the aggregation does not raise, the amount enters the period's
\* sum unchanged and the record is counted among the period's deals.
C13_NegativeAmountsSummed ==
  Answered =>
    /\ JsDone
    /\ \A k \in InputKeys :
         HasNegative(k) =>
           \E i \in DOMAIN records :
             /\ JsKey(records[i]) = k
             /\ records[i].CommitmentAmt = Total(k, "CommitmentAmt")
             /\ records[i].OutstandingAmt = Total(k, "OutstandingAmt")
             /\ records[i].Deals = Count(k)

C13_Witness ==
  /\ JsDone
  /\ \E i \in DOMAIN records :
       /\ HasNegative(JsKey(records[i]))
       /\ records[i].CommitmentAmt < 0
       /\ records[i].OutstandingAmt > 0
       /\ records[i].Deals >= 2

\* /api/query answered with success and without rows (data null or absent)
NullInput == response # Null /\ response.success /\ "data" \notin DOMAIN response

\* C14 as stated: an absent (null) input collection makes the aggregation
\* fail with InvalidArgumentError and produce no output rows.
C14_NullInputInvalidArgument ==
  NullInput => (jsState = "error" /\ thrown = "InvalidArgumentError" /\ records = <<>>)

\* C14 amended: an absent (null) input collection makes the aggregation
\* fail with the TypeError of iterating a value that is no array, and
\* produce no output rows.
C14_NullInputTypeError ==
  NullInput => (jsState = "error" /\ thrown = "TypeError" /\ records = <<>>)

C14_Witness ==
  /\ NullInput
  /\ table # EmptyBag
  /\ jsState = "error" /\ thrown = "TypeError" /\ records = <<>>

\* the invocations of simulateQueryExecution
QueryCalls == {c \in DOMAIN calls : calls[c].api = "simulateQueryExecution"}

\* the call as it was when it started to wait
Waiting(call) == [call EXCEPT !.state = "pending", !.value = <<>>, !.thrown = "none"]

\* C12: concurrent invocations of the query path with different inputs do
\* not interfere: every invocation waits for, and is settled with, the
\* backend's answer to a /api/query request that carries its own query, never
\* with cached data, and the query path stores nothing in the TTL cache.
C12_InvocationsIndependent ==
  /\ \A c \in QueryCalls :
       LET call == calls[c]
       IN  /\ call.fetch # 0
           /\ fetches[call.fetch].endpoint = "/api/query"
           /\ fetches[call.fetch].options.body = JSONstringify(call.queryRequest)
           /\ call.state # "pending" => call = AfterExecuteQuery(Waiting(call), Awaited(call))
  /\ \A key \in DOMAIN cache : key[1] # "/api/query"

C12_Witness ==
  /\ Len(calls) = 2
  /\ QueryCalls = {1, 2}
  /\ calls[1].queryRequest # calls[2].queryRequest
  /\ calls[1].state = "pending" /\ fetches[calls[1].fetch].state = "pending"
  /\ calls[2].state = "fulfilled" /\ Len(calls[2].value) = 1

\* the query behind a call reported failure: the request was rejected
\* (network failure, non-ok status) or the response says success: false
QueryFailed(awaited) ==
  awaited.state = "rejected" \/ ~awaited.value.success

\* C15: when the query reports failure the aggregation raises an error and
\* returns no rows, not even the rows a failed response carries, and it does
\* not retry: the backend never gets more requests than there were
\* invocations.
C15_FailureRaises ==
  /\ \A c \in QueryCalls :
       (calls[c].state # "pending" /\ QueryFailed(Awaited(calls[c]))) =>
         /\ calls[c].state = "rejected"
         /\ calls[c].value = <<>>
         /\ calls[c].thrown \in {"Error", "TypeError", "SyntaxError"}
  /\ Len(fetches) <= Len(calls)

C15_Witness ==
  \E c \in QueryCalls :
    /\ calls[c].state = "rejected" /\ calls[c].thrown = "Error"
    /\ Awaited(calls[c]).state = "fulfilled"
    /\ ~Awaited(calls[c]).value.success
    /\ Awaited(calls[c]).value.data # <<>>
    /\ Len(fetches) = 1

\* Execute Query has just built a request
Ran == params' # params

\* C16: an empty group imposes no restriction: a request built while the
\* region selection is empty admits the records of every region.
C16_EmptyRegionAdmitsAll ==
  [][(Ran /\ selectedFilters.region = <<>>) =>
       \A record \in LoanRecord : AdmitsRegion(params', record)]_vars

InSomeRange(record) ==
  \E range \in Elements(selectedFilters.customCommitmentRanges) :
    range.min <= record.CommitmentAmt /\ record.CommitmentAmt <= range.max

\* C17: with a non-empty custom-range list, the records a request admits are
\* those whose commitment amount lies in at least one range, bounds included.
C17_RangesRestrict ==
  [][(Ran /\ selectedFilters.customCommitmentRanges # <<>>) =>
       \A record \in LoanRecord : Admits(params', record) => InSomeRange(record)]_vars

RangesOrdered ==
  \A range \in Elements(selectedFilters.customCommitmentRanges) : range.min < range.max

Rejected(reason) ==
  rejection # Null /\ rejection.reason = reason

\* C19 (as stated): a range with min >= max is rejected with
\* InvalidFilterError and every range held satisfies min < max.
C19_RejectedWithInvalidFilterError ==
  /\ RangesOrdered
  /\ Rejected("min >= max") => rejection.raised = "InvalidFilterError"

\* C19 (amended): a range with min >= max is dropped by handleSubmit without
\* any error being raised, the list is left as it was, and every range held
\* satisfies min < max.
C19_RejectedSilently ==
  /\ RangesOrdered
  /\ Rejected("min >= max") => rejection.raised = "nothing"

C19_Witness ==
  /\ Rejected("min >= max")
  /\ selectedFilters.customCommitmentRanges # <<>>

\* the period key is not below the filter's lower bound, if it has one
NotBefore(dateFilter, periodKey) ==
  dateFilter.operator = "lessThan" \/ dateFilter.startDate.key <= periodKey

\* the period key is not above the filter's upper bound, if it has one
NotAfter(dateFilter, periodKey) ==
  /\ dateFilter.operator \in {"equals", "lessThan"} =>
       periodKey <= dateFilter.startDate.key
  /\ dateFilter.operator = "between" => periodKey <= dateFilter.endDate.key

FromTo == <<[operator |-> "greaterThan", startDate |-> Date(20240101)],
            [operator |-> "lessThan", startDate |-> Date(20240229)]>>

NoOpenBetween ==
  \A dateFilter \in Elements(dateFilters) :
    dateFilter.operator = "between" => "endDate" \in DOMAIN dateFilter

KeyOf(call) ==
  IF call.api = "simulateQueryExecution"
  THEN <<"/api/query", ":", JSONstringify(call.queryRequest)>>
  ELSE <<"/api/filter-options">>

\* a request has just been issued, and the call it made
Issued == Len(calls') = Len(calls) + 1
Latest == calls'[Len(calls')]

\* the fetches of a key that have not settled
PendingFor(key) ==
  {f \in DOMAIN fetches : fetches[f].key = key /\ fetches[f].state = "pending"}

\* the request went to the backend with a fetch of its own
SentToBackend ==
  /\ Latest.cached = Null
  /\ Len(fetches') = Len(fetches) + 1
  /\ Latest.fetch = Len(fetches')
  /\ fetches'[Latest.fetch].state = "pending"
  /\ fetches'[Latest.fetch].key = KeyOf(Latest)

\* C22: query results are never stored in or served from the TTL cache: no
\* request of the query path reads or writes the cache, and a query issued
\* when no fetch of the same query is pending (every earlier identical query
\* has completed) goes to the backend with a fetch of its own.
C22_QueriesComputedFresh ==
  [][/\ \A key \in DOMAIN cache' : key[1] # "/api/query"
     /\ (Issued /\ Latest.api = "simulateQueryExecution") =>
          /\ Latest.cached = Null /\ Latest.fetch # 0
          /\ cache' = cache
          /\ PendingFor(KeyOf(Latest)) = {} => SentToBackend]_vars

C22_Witness ==
  /\ Len(calls) = 2 /\ QueryCalls = {1, 2}
  /\ calls[1].queryRequest = calls[2].queryRequest
  /\ calls[1].state = "fulfilled" /\ Len(calls[1].value) = 1
  /\ calls[1].fetch = 1 /\ calls[2].fetch = 2
  /\ calls[2].state = "fulfilled" /\ calls[2].value = <<>>

\* at most one fetch is pending per request key
OneFetchPerKey ==
  \A f, g \in DOMAIN fetches :
    (fetches[f].state = "pending" /\ fetches[g].state = "pending"
       /\ fetches[f].key = fetches[g].key) => f = g

\* a settled call has the outcome of the fetch it was attached to
OutcomeOfFetch ==
  \A c \in DOMAIN calls :
    (calls[c].fetch # 0 /\ calls[c].state # "pending") =>
      LET fetch == fetches[calls[c].fetch]
      IN  /\ fetch.key = KeyOf(calls[c])
          /\ fetch.state # "pending"
          /\ IF calls[c].api = "simulateQueryExecution"
             THEN calls[c] = AfterExecuteQuery(Waiting(calls[c]),
                               [state |-> fetch.state, value |-> fetch.value,
                                error |-> fetch.error])
             ELSE /\ calls[c].state = fetch.state
                  /\ fetch.state = "fulfilled" => calls[c].value = fetch.value
                  /\ fetch.state = "rejected" => calls[c].thrown = fetch.error

\* C23: identical concurrent requests are deduplicated: at most one fetch is
\* pending per request key, a request issued while a fetch of its key is
\* pending starts no fetch and is attached to that one, and every settled
\* call has the outcome (value or error) of the fetch it was attached to.
C23_Deduplicated ==
  /\ []OneFetchPerKey
  /\ []OutcomeOfFetch
  /\ [][(Issued /\ PendingFor(KeyOf(Latest)) # {}) =>
          /\ fetches' = fetches
          /\ Latest.fetch \in PendingFor(KeyOf(Latest))]_vars

C23_Witness ==
  /\ Len(calls) = 2 /\ Len(fetches) = 1
  /\ calls[1].fetch = 1 /\ calls[2].fetch = 1
  /\ calls[1].state = "rejected" /\ calls[2].state = "rejected"
  /\ calls[1].thrown = fetches[1].error /\ calls[2].thrown = fetches[1].error

\* the in-flight map holds exactly the pending fetches, under their keys
InflightArePending ==
  /\ \A key \in DOMAIN inflightRequests :
       /\ inflightRequests[key] \in DOMAIN fetches
       /\ fetches[inflightRequests[key]].state = "pending"
       /\ fetches[inflightRequests[key]].key = key
  /\ \A f \in DOMAIN fetches :
       fetches[f].state # "pending" =>
         (fetches[f].key \in DOMAIN inflightRequests =>
            inflightRequests[fetches[f].key] # f)

\* C24: the in-flight entry of a key is cleared when its fetch settles,
\* fulfilled or rejected: the in-flight map never holds a settled fetch, the
\* step that settles a fetch removes the entry of its key, and no request is
\* attached to a fetch that has already settled.
C24_InflightCleared ==
  [][/\ InflightArePending'
     /\ \A f \in DOMAIN fetches :
          (fetches[f].state = "pending" /\ fetches'[f].state # "pending") =>
            fetches[f].key \notin DOMAIN inflightRequests'
     /\ Issued => (Latest.fetch = 0 \/ fetches'[Latest.fetch].state = "pending")]_vars

C24_Witness ==
  /\ Len(fetches) = 2
  /\ fetches[1].key = fetches[2].key
  /\ fetches[1].state = "rejected" /\ fetches[2].state = "fulfilled"
  /\ DOMAIN inflightRequests = {}

\* the entry of a key has run out
Expired(key) == key \in DOMAIN cache /\ now > cache[key].expiry

\* the step stored the answer of a fetch that has just been fulfilled
StoredBySuccess(key) ==
  \E f \in DOMAIN fetches :
    /\ fetches[f].state = "pending" /\ fetches'[f].state = "fulfilled"
    /\ fetches[f].key = key
    /\ cache'[key] = [data |-> fetches'[f].value,
                      expiry |-> now + fetches[f].cacheTtlMs]

\* C25: the TTL cache never serves an expired entry: an entry is written
\* only with the answer of a fetch fulfilled at that moment s and expires at
\* s + ttl; a request made at time t is served a stored value only if it is
\* the entry of its key and t <= s + ttl; an entry found expired on lookup
\* is removed and the request goes to the backend.
C25_NeverServesExpired ==
  [][/\ \A key \in DOMAIN cache' :
          (key \notin DOMAIN cache \/ cache'[key] # cache[key]) => StoredBySuccess(key)
     /\ Issued =>
          /\ Latest.cached # Null =>
               /\ KeyOf(Latest) \in DOMAIN cache
               /\ now <= cache[KeyOf(Latest)].expiry
               /\ Latest.cached = cache[KeyOf(Latest)].data
          /\ Expired(KeyOf(Latest)) =>
               /\ KeyOf(Latest) \notin DOMAIN cache'
               /\ SentToBackend]_vars

C25_Witness ==
  /\ Len(calls) = 2 /\ Len(fetches) = 1
  /\ calls[2].cached # Null
  /\ calls[2].cached = fetches[1].value
  /\ now = FilterOptionsTtl
  /\ cache[KeyOf(calls[2])].expiry = FilterOptionsTtl

\* the fetches made for a key
FetchesFor(key) == {f \in DOMAIN fetches : fetches[f].key = key}

\* the last fetch made for the key failed
LastFailed(key) ==
  /\ FetchesFor(key) # {}
  /\ \E f \in FetchesFor(key) :
       /\ \A g \in FetchesFor(key) : g <= f
       /\ fetches[f].state = "rejected"

\* C26: a failed request leaves the TTL cache unchanged: the step in which a
\* fetch is rejected changes nothing in the cache, every entry holds the
\* value of a fulfilled fetch of its key, and the next request of a key
\* whose last fetch failed goes to the backend again.
C26_FailureNotCached ==
  [][/\ \A f \in DOMAIN fetches :
          (fetches[f].state = "pending" /\ fetches'[f].state = "rejected") =>
            cache' = cache
     /\ \A key \in DOMAIN cache' :
          \E f \in FetchesFor(key)' :
            fetches'[f].state = "fulfilled" /\ fetches'[f].value = cache'[key].data
     /\ (Issued /\ LastFailed(KeyOf(Latest))) => SentToBackend]_vars

C26_Witness ==
  /\ Len(fetches) = 2 /\ Len(calls) = 2
  /\ fetches[1].cacheTtlMs # 0 /\ fetches[2].key = fetches[1].key
  /\ fetches[1].state = "rejected" /\ fetches[2].state = "fulfilled"
  /\ calls[1].state = "rejected" /\ calls[2].fetch = 2
  /\ DOMAIN cache = {fetches[2].key}

NullFields == {"CommitmentAmtPrior", "OutstandingAmtPrior", "DealsPrior",
               "ca_diff", "oa_diff", "deals_diff"}

ChartRatio == [ca_diff |-> "caDiff", oa_diff |-> "oaDiff", deals_diff |-> "dealsDiff"]

\* the fields of a period summary keep their null status on the way to the
\* table, and its ratios keep it on the way to the chart
NullStatusPreserved(row) ==
  /\ \A f \in NullFields : (transformedData(row)[f] = Null) <=> (row[f] = Null)
  /\ \A f \in DOMAIN ChartRatio :
       (chartData(transformedData(row))[ChartRatio[f]] = Null) <=> (row[f] = Null)

\* C21: in the records handed to the table and chart layers a field that is
\* null in the engine's result (a prior of the first period, a null ratio)
\* is still null, and a ratio that is exactly 0 is still 0 and not null.
C21_NullSemanticsPreserved ==
  SqlDone => \A i \in DOMAIN aggregated_analytics :
               NullStatusPreserved(aggregated_analytics[i])

\* a ratio of the client and the stored NUMERIC(10,6) ratio are the same
\* value: both null, or the client's fraction rounded to six decimals
SameRatio(js, sql) ==
  IF js = Null \/ sql = Null THEN js = sql
  ELSE IsFrac(js) /\ Numeric10_6(js) = sql

\* a row of the client and a row of aggregated_analytics agree in every field
SameRow(js, sql) ==
  /\ JsKey(js) = SqlKey(sql)
  /\ js.CommitmentAmt = sql.CommitmentAmt
  /\ js.OutstandingAmt = sql.OutstandingAmt
  /\ js.Deals = sql.Deals
  /\ ParseKey(js.ProcessingDateKeyPrior) = sql.ProcessingDateKeyPrior
  /\ js.CommitmentAmtPrior = sql.CommitmentAmtPrior
  /\ js.OutstandingAmtPrior = sql.OutstandingAmtPrior
  /\ js.DealsPrior = sql.DealsPrior
  /\ SameRatio(js.ca_diff, sql.ca_diff)
  /\ SameRatio(js.oa_diff, sql.oa_diff)
  /\ SameRatio(js.deals_diff, sql.deals_diff)
  /\ js.ca_model_diff = sql.ca_model_diff
  /\ js.oa_model_diff = sql.oa_model_diff
  /\ js.deals_model_diff = sql.deals_model_diff

\* C27: the client-side aggregation and the SQL aggregation are equivalent:
\* when both have run over the same records they produce the same sequence
\* of rows, with the same values and the same null status in every field.
C27_AggregationsEquivalent ==
  (JsDone /\ SqlDone) =>
    /\ Len(records) = Len(aggregated_analytics)
    /\ \A i \in DOMAIN records : SameRow(records[i], aggregated_analytics[i])

\* the r-th execution of handleRunQuery has run through its finally block
Ended(r) == r \in DOMAIN runs /\ runs[r].pc \in {"done", "failed"}

InFlight(r) == r \in DOMAIN runs /\ ~Ended(r)

C29_LatestQueryWins ==
  /\ (\E r \in DOMAIN runs : InFlight(r)) => isLoading
  /\ (runs # <<>> /\ (\A r \in DOMAIN runs : Ended(r)) /\ runs[Len(runs)].pc = "done") =>
       queryResults = runs[Len(runs)].rows

\* a connection attempt has not yet run through its finally block
InProgress(a) == a \in DOMAIN attempts /\ attempts[a].pc # "done"

\* C30: whenever no attempt is shown as in progress, the page is either
\* connected with no error or not connected with a non-empty error message,
\* and isConnecting is true from the start of every attempt until that
\* attempt has finished.
C30_ConnectionStateConsistent ==
  /\ ~isConnecting =>
       \/ isConnected /\ connectionError = Null
       \/ ~isConnected /\ connectionError # Null /\ connectionError.message # ""
  /\ (\E a \in DOMAIN attempts : InProgress(a)) => isConnecting

C30_Witness ==
  /\ Len(attempts) = 2
  /\ \A a \in DOMAIN attempts : ~InProgress(a)
  /\ ~isConnecting /\ isConnected /\ connectionError = Null

====
